---- MODULE Spec2Model ----
(***************************************************************************)
(* Model of the market-data retrieval scripts of stockDataDisplay:         *)
(*   components/data_grabber.py  get_sp500_price, get_sofr_rate,           *)
(*                               get_treasury_yield_curve, get_forex_matrix*)
(*   components/scraper.py       getResponse, getData                      *)
(*   components/equity.py        get_SnP, get_gainers                      *)
(* Every function is a sequential call: the caller is idle, calls one      *)
(* function, the function runs its statements, and the call ends either by *)
(* returning a value or by an exception that reaches the caller.           *)
(***************************************************************************)
EXTENDS Integers, Sequences, FiniteSets, TLC

VARIABLES
    pc,          \* position of the running call ("idle", a statement label, "done")
    fn,          \* the function that was called ("none" when idle)
    arg,         \* the call's arguments
    requests,    \* the remote requests issued by the running call, in order
    ret,         \* how the call ended: [kind, val]
    data,        \* get_forex_matrix: the parsed JSON payload
    rates,       \* get_forex_matrix: the rate table
    currencies,  \* get_forex_matrix: the currency list in use
    fred,        \* get_sofr_rate / get_treasury_yield_curve: client created
    idx,         \* get_treasury_yield_curve: maturities already queried
    results,     \* get_treasury_yield_curve: the (term, rate) rows so far
    series,      \* the response of the series query being processed
    failed,      \* history: terms whose query raised or returned an empty series
    nodata,      \* history: terms whose series was non-empty with no defined entry
    soup,        \* getData: the parsed page
    coochribute  \* getData: the element found

vars == <<pc, fn, arg, requests, ret, data, rates, currencies, fred, idx,
          results, series, failed, nodata, soup, coochribute>>

(***************************************************************************)
(* Bounds of the model.                                                    *)
(***************************************************************************)
MantissaBits == 4   \* width of the float mantissa (53 in CPython)
MaxRequested == 2   \* longest currency list passed to get_forex_matrix
MaxSeriesLen == 3   \* longest series a quote or rate query answers with
MaxRate == 3        \* distinct defined values an observation may take
MaxCurveLen == 2    \* longest series answered inside the ten-maturity loop
MaxElements == 2    \* most elements of a scraped page

Range(s) == {s[i] : i \in 1..Len(s)}

SeqsUpTo(S, n) == UNION {[1..k -> S] : k \in 0..n}

Unset == [kind |-> "unset"]
NoArg == [kind |-> "noarg"]
Pending == [kind |-> "pending"]
None == [kind |-> "none"]

\* A request that is sent again after its first attempt.
IssueWithRetry(reqs, r) == Append(Append(reqs, r), r)

\* One remote request: requests.get, Ticker.history or Fred.get_series is
\* called once where the statement stands, with no retry around it.
Issue(reqs, r) == Append(reqs, r)

Raised(e) == [kind |-> "raised", val |-> e]

Value(v) == [kind |-> "value", val |-> v]

(***************************************************************************)
(* Python floats: binary floating point, round to nearest, ties to even.   *)
(* A float is m * 2^e with 2^(MantissaBits-1) <= m < 2^MantissaBits, or    *)
(* zero.  Exponent range is not bounded: rates are far from overflow.      *)
(***************************************************************************)
RECURSIVE Pow2(_)
Pow2(n) == IF n = 0 THEN 1 ELSE 2 * Pow2(n - 1)

Zero == [m |-> 0, e |-> 0]

RECURSIVE RoundRatio(_, _, _)
RoundRatio(n, d, e) ==
    IF n >= d * Pow2(MantissaBits) THEN RoundRatio(n, 2 * d, e + 1)
    ELSE IF n < d * Pow2(MantissaBits - 1) THEN RoundRatio(2 * n, d, e - 1)
    ELSE LET q == n \div d
             r == n % d
             m == IF 2 * r > d \/ (2 * r = d /\ q % 2 = 1) THEN q + 1 ELSE q
         IN  IF m = Pow2(MantissaBits)
             THEN [m |-> Pow2(MantissaBits - 1), e |-> e + 1]
             ELSE [m |-> m, e |-> e]

\* The float nearest to the decimal literal n/d of a JSON document.
FloatOf(n, d) == IF n = 0 THEN Zero ELSE RoundRatio(n, d, 0)

\* a / b for b # 0 (Python raises ZeroDivisionError before dividing by zero).
FDiv(a, b) ==
    IF a.m = 0 THEN Zero
    ELSE LET q == RoundRatio(a.m, b.m, 0)
         IN  [m |-> q.m, e |-> q.e + a.e - b.e]

\* a * b
FMul(a, b) ==
    IF a.m = 0 \/ b.m = 0 THEN Zero
    ELSE LET q == RoundRatio(a.m * b.m, 1, 0)
         IN  [m |-> q.m, e |-> q.e + a.e + b.e]

One == FloatOf(1, 1)

(***************************************************************************)
(* get_forex_matrix: the remote service and its payloads.                  *)
(***************************************************************************)
Codes == {"USD", "EUR", "GBP"}

\* Decimal literals a payload may carry as a rate: 0, 1, 0.9, 0.78, 150.
RateLiterals == {<<0, 1>>, <<1, 1>>, <<9, 10>>, <<78, 100>>, <<150, 1>>}

RateTables == UNION {[S -> RateLiterals] : S \in SUBSET Codes}

\* Bodies the service may answer with: a JSON object with a "rates" member,
\* a JSON object without one, or JSON that is not an object.
Bodies ==
    {[kind |-> "object", hasRates |-> TRUE, rates |-> t] : t \in RateTables}
    \cup {[kind |-> "object", hasRates |-> FALSE, rates |-> <<>>],
          [kind |-> "array", hasRates |-> FALSE, rates |-> <<>>]}

\* Outcomes of requests.get(url) + raise_for_status().
FetchOutcomes ==
    {[kind |-> "transport_error"], [kind |-> "http_error"]}
    \cup {[kind |-> "ok", body |-> b] : b \in Bodies}

\* response.json(): decimal literals become floats.
ParseJson(body) ==
    [kind |-> body.kind, hasRates |-> body.hasRates,
     rates |-> [c \in DOMAIN body.rates |->
                   FloatOf(body.rates[c][1], body.rates[c][2])]]

\* get_forex_matrix(currencies=...): None or a list of codes.
CurrencyArgs ==
    {[none |-> TRUE, list |-> <<>>]}
    \cup {[none |-> FALSE, list |-> l] : l \in SeqsUpTo(Codes, MaxRequested)}

FxUrl(base) == <<"https://api.exchangerate-api.com/v4/latest/", base>>

\* data.get("rates", {})
GetRates(d) == IF d.hasRates THEN d.rates ELSE <<>>

\* A key list that stops after the first key of the table.
KeysListFirstOnly(r) == <<CHOOSE c \in DOMAIN r : TRUE>>

\* list(rates.keys())
KeysList(r) ==
    CHOOSE s \in [1..Cardinality(DOMAIN r) -> DOMAIN r] : Range(s) = DOMAIN r

\* [cur for cur in currencies if cur in rates]
IsAvailable(cur, r) == cur \in DOMAIN r

\* A filter that stops at the first available currency.
FilterFirstOnly(cs, r) ==
    LET kept == SelectSeq(cs, LAMBDA cur : IsAvailable(cur, r))
    IN  IF Len(kept) = 0 THEN kept ELSE <<kept[1]>>

FilterCurrencies(cs, r) == SelectSeq(cs, LAMBDA cur : IsAvailable(cur, r))

\* The ratio taken the wrong way round: rate_i / rate_j.
RatioInverted(r, i, j) == FDiv(r[i], r[j])

\* rate_j / rate_i
Ratio(r, i, j) == FDiv(r[j], r[i])

\* matrix = {i: {j: rates[j] / rates[i] for j in currencies} for i in currencies}
BuildMatrix(cs, r) ==
    [i \in Range(cs) |-> [j \in Range(cs) |-> Ratio(r, i, j)]]

\* pd.DataFrame(dict of dicts): outer keys are the columns, inner keys the rows.
DataFrame(d) ==
    LET cols == DOMAIN d
        rows == UNION {DOMAIN d[c] : c \in cols}
    IN  [index |-> rows, columns |-> cols,
         at |-> [r \in rows |-> [c \in cols |-> d[c][r]]]]

\* DataFrame.T
Transpose(df) ==
    [index |-> df.columns, columns |-> df.index,
     at |-> [r \in df.columns |-> [c \in df.index |-> df.at[c][r]]]]

Init ==
    /\ pc = "idle"
    /\ fn = "none"
    /\ arg = NoArg
    /\ requests = <<>>
    /\ ret = Pending
    /\ data = Unset
    /\ rates = <<>>
    /\ currencies = <<>>
    /\ fred = FALSE
    /\ idx = 0
    /\ results = <<>>
    /\ series = Unset
    /\ failed = {}
    /\ nodata = {}
    /\ soup = Unset
    /\ coochribute = Unset

\* The caller calls get_forex_matrix(currencies=cs) with the default base.
get_forex_matrix ==
    /\ pc = "idle"
    /\ \E cs \in CurrencyArgs :
          arg' = [none |-> cs.none, list |-> cs.list, reference_base |-> "USD"]
    /\ fn' = "get_forex_matrix"
    /\ pc' = "fx_fetch"
    /\ UNCHANGED <<requests, ret, data, rates, currencies, fred, idx, results,
                   series, failed, nodata, soup, coochribute>>

\* Lines 141-147: the request; a RequestException ends the call with None.
fx_fetch ==
    /\ pc = "fx_fetch"
    /\ requests' = Issue(requests, FxUrl(arg.reference_base))
    /\ \E out \in FetchOutcomes :
          IF out.kind = "ok"
          THEN /\ data' = ParseJson(out.body)
               /\ pc' = "fx_select"
               /\ ret' = ret
          ELSE /\ data' = data
               /\ pc' = "done"
               /\ ret' = None
    /\ UNCHANGED <<fn, arg, rates, currencies, fred, idx, results, series,
                   failed, nodata, soup, coochribute>>

\* Lines 149-162: the rate table and the currency list in use.
fx_select ==
    /\ pc = "fx_select"
    /\ IF data.kind # "object"
       THEN \* data.get on a list, string or number
            /\ ret' = Raised("AttributeError")
            /\ pc' = "done"
            /\ UNCHANGED <<rates, currencies>>
       ELSE LET r == GetRates(data)
                cs == IF arg.none THEN KeysList(r)
                      ELSE FilterCurrencies(arg.list, r)
            IN  /\ rates' = r
                /\ IF DOMAIN r = {}
                   THEN /\ ret' = None
                        /\ pc' = "done"
                        /\ currencies' = currencies
                   ELSE IF Len(cs) = 0
                   THEN /\ ret' = None
                        /\ pc' = "done"
                        /\ currencies' = cs
                   ELSE /\ ret' = ret
                        /\ pc' = "fx_build"
                        /\ currencies' = cs
    /\ UNCHANGED <<fn, arg, requests, data, fred, idx, results, series,
                   failed, nodata, soup, coochribute>>

\* Lines 167-178: the matrix of ratios, outside any try block.
fx_build ==
    /\ pc = "fx_build"
    /\ IF \E i \in Range(currencies) : rates[i] = Zero
       THEN ret' = Raised("ZeroDivisionError")
       ELSE ret' = [kind |-> "matrix",
                    val |-> Transpose(DataFrame(BuildMatrix(currencies, rates)))]
    /\ pc' = "done"
    /\ UNCHANGED <<fn, arg, requests, data, rates, currencies, fred, idx,
                   results, series, failed, nodata, soup, coochribute>>

\* The call is over; the caller goes on and nothing survives the call.
Return ==
    /\ pc = "done"
    /\ pc' = "idle"
    /\ fn' = "none"
    /\ arg' = NoArg
    /\ requests' = <<>>
    /\ ret' = Pending
    /\ data' = Unset
    /\ rates' = <<>>
    /\ currencies' = <<>>
    /\ fred' = FALSE
    /\ idx' = 0
    /\ results' = <<>>
    /\ series' = Unset
    /\ failed' = {}
    /\ nodata' = {}
    /\ soup' = Unset
    /\ coochribute' = Unset

NextForex == get_forex_matrix \/ fx_fetch \/ fx_select \/ fx_build \/ Return

SpecForex == Init /\ [][NextForex]_vars

(***************************************************************************)
(* Time series: an observation is a defined number or NaN.                 *)
(***************************************************************************)
NaN == [nan |-> TRUE, v |-> 0]

Num(v) == [nan |-> FALSE, v |-> v]

Observations == {NaN} \cup {Num(v) : v \in 1..MaxRate}

\* Outcomes of one series query (Ticker.history, Fred.get_series): the call
\* raises, or it answers with a series, which may be empty.
QueryOutcomes ==
    {[kind |-> "raise", obs |-> <<>>]}
    \cup {[kind |-> "series", obs |-> s] :
             s \in SeqsUpTo(Observations, MaxSeriesLen)}

\* The api_key argument: a key, or None with no key in the environment
\* (Fred(api_key=None) then raises ValueError).
ApiKeys == {"key", "absent"}

\* series.iloc[-1]
ILocLast(obs) == obs[Len(obs)]

\* series.dropna()
DropNa(obs) == SelectSeq(obs, LAMBDA o : ~o.nan)

\* A body that applies the yield curve's policy: the last defined entry.
ScalarResultLastDefined(out) ==
    IF out.kind = "raise" THEN None
    ELSE IF Len(DropNa(out.obs)) = 0 THEN None
    ELSE Value(ILocLast(DropNa(out.obs)))

\* The body of a scalar retrieval after its query: an exception or an empty
\* series gives None, anything else the literal last entry.
ScalarResult(out) ==
    IF out.kind = "raise" THEN None
    ELSE IF Len(out.obs) = 0 THEN None
    ELSE Value(ILocLast(out.obs))

get_sp500_price ==
    /\ pc = "idle"
    /\ fn' = "get_sp500_price"
    /\ pc' = "sp_history"
    /\ UNCHANGED <<arg, requests, ret, data, rates, currencies, fred, idx,
                   results, series, failed, nodata, soup, coochribute>>

\* Lines 16-31: one history query for ^GSPC and the last Close.
sp_history ==
    /\ pc = "sp_history"
    /\ requests' = Issue(requests, <<"history", "^GSPC">>)
    /\ \E out \in QueryOutcomes :
          /\ series' = out
          /\ ret' = ScalarResult(out)
    /\ pc' = "done"
    /\ UNCHANGED <<fn, arg, data, rates, currencies, fred, idx, results,
                   failed, nodata, soup, coochribute>>

get_sofr_rate ==
    /\ pc = "idle"
    /\ \E k \in ApiKeys : arg' = [api_key |-> k]
    /\ fn' = "get_sofr_rate"
    /\ pc' = "sofr_series"
    /\ UNCHANGED <<requests, ret, data, rates, currencies, fred, idx, results,
                   series, failed, nodata, soup, coochribute>>

\* Lines 43-60: the client, one query for SOFR and its last entry.
sofr_series ==
    /\ pc = "sofr_series"
    /\ IF arg.api_key = "absent"
       THEN /\ ret' = None
            /\ UNCHANGED <<fred, requests, series>>
       ELSE /\ fred' = TRUE
            /\ requests' = Issue(requests, <<"get_series", "SOFR">>)
            /\ \E out \in QueryOutcomes :
                  /\ series' = out
                  /\ ret' = ScalarResult(out)
    /\ pc' = "done"
    /\ UNCHANGED <<fn, arg, data, rates, currencies, idx, results, failed,
                   nodata, soup, coochribute>>

NextScalar == get_sp500_price \/ sp_history \/ get_sofr_rate \/ sofr_series \/ Return

SpecScalar == Init /\ [][NextScalar]_vars

(***************************************************************************)
(* get_treasury_yield_curve.                                               *)
(***************************************************************************)
\* rates_mapping, in insertion order.
rates_mapping ==
    << <<"3M", "DGS3MO">>, <<"6M", "DGS6MO">>, <<"1Y", "DGS1">>,
       <<"2Y", "DGS2">>, <<"3Y", "DGS3">>, <<"5Y", "DGS5">>,
       <<"7Y", "DGS7">>, <<"10Y", "DGS10">>, <<"20Y", "DGS20">>,
       <<"30Y", "DGS30">> >>

NumTerms == Len(rates_mapping)

Terms == {rates_mapping[i][1] : i \in 1..NumTerms}

\* Inside the loop the bookkeeping depends on a series only through whether
\* the query failed, the series had no defined entry, or it had one; the
\* choice among several defined entries is checked in SpecLatest.
CurveOutcomes ==
    {[kind |-> "raise", obs |-> <<>>]}
    \cup {[kind |-> "series", obs |-> s] :
             s \in SeqsUpTo({NaN, Num(1)}, MaxCurveLen)}

\* series.iloc[-1] without dropna.
LatestValueRaw(obs) == ILocLast(obs)

\* series.dropna().iloc[-1]
LatestValue(obs) == ILocLast(DropNa(obs))

\* A loop body that reports a series without a defined entry as a NaN row.
TermBodyKeepsUndefined(term, out, res) ==
    IF out.kind = "raise" THEN res
    ELSE IF Len(out.obs) = 0 THEN res
    ELSE IF Len(DropNa(out.obs)) = 0 THEN Append(res, <<term, NaN>>)
    ELSE Append(res, <<term, LatestValue(out.obs)>>)

\* Lines 94-106, the body of the loop for one maturity: the query raised,
\* the series is empty (ValueError), or dropna() leaves nothing (IndexError
\* from iloc[-1]): the term is skipped; otherwise a row is appended.
TermBody(term, out, res) ==
    IF out.kind = "raise" THEN res
    ELSE IF Len(out.obs) = 0 THEN res
    ELSE IF Len(DropNa(out.obs)) = 0 THEN res
    ELSE Append(res, <<term, LatestValue(out.obs)>>)

\* pd.DataFrame(results, columns=["Term", "Rate"])
Table(res) == [kind |-> "table", columns |-> <<"Term", "Rate">>, rows |-> res]

get_treasury_yield_curve ==
    /\ pc = "idle"
    /\ \E k \in ApiKeys : arg' = [api_key |-> k]
    /\ fn' = "get_treasury_yield_curve"
    /\ pc' = "tc_client"
    /\ UNCHANGED <<requests, ret, data, rates, currencies, fred, idx, results,
                   series, failed, nodata, soup, coochribute>>

\* Line 76 and the outer except of lines 112-114.
tc_client ==
    /\ pc = "tc_client"
    /\ IF arg.api_key = "absent"
       THEN /\ ret' = None
            /\ pc' = "done"
            /\ fred' = fred
       ELSE /\ fred' = TRUE
            /\ pc' = "tc_loop"
            /\ ret' = ret
    /\ UNCHANGED <<fn, arg, requests, data, rates, currencies, idx, results,
                   series, failed, nodata, soup, coochribute>>

\* Lines 93-106: one iteration of the loop over rates_mapping.
tc_loop ==
    /\ pc = "tc_loop"
    /\ idx < NumTerms
    /\ LET term == rates_mapping[idx + 1][1]
           series_id == rates_mapping[idx + 1][2]
       IN  /\ requests' = Issue(requests, <<"get_series", series_id>>)
           /\ \E out \in CurveOutcomes :
                 /\ results' = TermBody(term, out, results)
                 /\ failed' = IF out.kind = "raise" \/ Len(out.obs) = 0
                               THEN failed \cup {term} ELSE failed
                 /\ nodata' = IF out.kind = "series" /\ Len(out.obs) > 0
                                  /\ \A i \in 1..Len(out.obs) : out.obs[i].nan
                               THEN nodata \cup {term} ELSE nodata
    /\ idx' = idx + 1
    /\ UNCHANGED <<pc, fn, arg, ret, data, rates, currencies, fred, series,
                   soup, coochribute>>

\* Lines 109-110: the table is built and returned once the loop is over.
tc_return ==
    /\ pc = "tc_loop"
    /\ idx = NumTerms
    /\ ret' = Table(results)
    /\ pc' = "done"
    /\ UNCHANGED <<fn, arg, requests, data, rates, currencies, fred, idx,
                   results, series, failed, nodata, soup, coochribute>>

\* The loop body on its own: one maturity, the rows of the earlier ones, and
\* the answer to its query, drawn from every series up to MaxSeriesLen.
EarlierRows(n) == [i \in 1..n |-> <<rates_mapping[i][1], Num(1)>>]

InitLatest ==
    /\ pc = "tc_body"
    /\ fn = "get_treasury_yield_curve"
    /\ arg = [api_key |-> "key"]
    /\ fred = TRUE
    /\ idx \in 0..(NumTerms - 1)
    /\ requests = [i \in 1..(idx + 1) |-> <<"get_series", rates_mapping[i][2]>>]
    /\ results = EarlierRows(idx)
    /\ series \in QueryOutcomes
    /\ ret = Pending
    /\ data = Unset
    /\ rates = <<>>
    /\ currencies = <<>>
    /\ failed = {}
    /\ nodata = {}
    /\ soup = Unset
    /\ coochribute = Unset

\* Lines 97-106 applied to the answer held in series.
tc_body ==
    /\ pc = "tc_body"
    /\ results' = TermBody(rates_mapping[idx + 1][1], series, results)
    /\ idx' = idx + 1
    /\ pc' = "tc_body_done"
    /\ UNCHANGED <<fn, arg, requests, ret, data, rates, currencies, fred,
                   series, failed, nodata, soup, coochribute>>

NextLatest == tc_body

SpecLatest == InitLatest /\ [][NextLatest]_vars

NextCurve == get_treasury_yield_curve \/ tc_client \/ tc_loop \/ tc_return \/ Return

SpecCurve == Init /\ [][NextCurve]_vars

(***************************************************************************)
(* scraper.py and equity.py.                                               *)
(***************************************************************************)
SNP_LIVE_URL == "https://finance.yahoo.com/quote/%5EGSPC/"
GAINERS_URL == "https://finance.yahoo.com/markets/stocks/gainers/"
FINVIZ_URL == "https://finviz.com"

\* The selectors the callers pass: a dict of attributes, or a bare string.
SnPSelector == [kind |-> "dict", key |-> "data-testid", value |-> "qsp-price"]
GainersSelector == [kind |-> "str", key |-> "", value |-> "js-signals_1"]

\* An element of a page: its tag name, its one attribute (or none) and its
\* text content.  A page is its elements in document order.
Elements ==
    [name : {"span", "div", "class"},
     attr : {<<>>, <<"data-testid", "qsp-price">>, <<"class", "js-signals_1">>},
     text : {"5,000.00", " 5,000.00\n"}]

Pages == SeqsUpTo(Elements, MaxElements)

\* Outcomes of requests.get(url, headers=headers).
PageOutcomes ==
    {[kind |-> "transport_error", status |-> 0, page |-> <<>>],
     [kind |-> "response", status |-> 404, page |-> <<>>]}
    \cup {[kind |-> "response", status |-> 200, page |-> pg] : pg \in Pages}

\* BeautifulSoup reads a string given as attrs as a value of class.
SelectorAttr(html_id) ==
    IF html_id.kind = "str" THEN <<"class", html_id.value>>
    ELSE <<html_id.key, html_id.value>>

Matching(pg, name, html_id) ==
    {i \in 1..Len(pg) : pg[i].name = name /\ pg[i].attr = SelectorAttr(html_id)}

Min(S) == CHOOSE x \in S : \A y \in S : x <= y

\* soup.find(name, html_id): the first matching element, or None.
Find(pg, name, html_id) ==
    IF Matching(pg, name, html_id) = {} THEN None
    ELSE [kind |-> "element", val |-> pg[Min(Matching(pg, name, html_id))]]

\* getData(url, html_id) called directly.
getData ==
    /\ pc = "idle"
    /\ \E u \in {SNP_LIVE_URL, GAINERS_URL} :
       \E sel \in {SnPSelector, GainersSelector} :
          arg' = [url |-> u, html_id |-> sel]
    /\ fn' = "getData"
    /\ pc' = "getResponse"
    /\ UNCHANGED <<requests, ret, data, rates, currencies, fred, idx, results,
                   series, failed, nodata, soup, coochribute>>

\* equity.py lines 10-11
get_SnP ==
    /\ pc = "idle"
    /\ arg' = [url |-> SNP_LIVE_URL, html_id |-> SnPSelector]
    /\ fn' = "get_SnP"
    /\ pc' = "getResponse"
    /\ UNCHANGED <<requests, ret, data, rates, currencies, fred, idx, results,
                   series, failed, nodata, soup, coochribute>>

\* equity.py lines 17-18
get_gainers ==
    /\ pc = "idle"
    /\ arg' = [url |-> GAINERS_URL, html_id |-> GainersSelector]
    /\ fn' = "get_gainers"
    /\ pc' = "getResponse"
    /\ UNCHANGED <<requests, ret, data, rates, currencies, fred, idx, results,
                   series, failed, nodata, soup, coochribute>>

\* scraper.py lines 5-19, called at line 23 outside any try block: an
\* exception of requests.get, or the one raised for a status other than 200,
\* passes through getData and its caller.
getResponse ==
    /\ pc = "getResponse"
    /\ requests' = Issue(requests, arg.url)
    /\ \E out \in PageOutcomes :
          IF out.kind = "transport_error"
          THEN /\ ret' = Raised("RequestException")
               /\ pc' = "done"
               /\ soup' = soup
          ELSE IF out.status # 200
          THEN /\ ret' = Raised("Exception")
               /\ pc' = "done"
               /\ soup' = soup
          ELSE /\ ret' = ret
               /\ pc' = "find_span"
               /\ soup' = [kind |-> "soup", page |-> out.page]
    /\ UNCHANGED <<fn, arg, data, rates, currencies, fred, idx, results,
                   series, failed, nodata, coochribute>>

\* scraper.py lines 28-31
find_span ==
    /\ pc = "find_span"
    /\ coochribute' = Find(soup.page, "span", arg.html_id)
    /\ pc' = "find_class"
    /\ UNCHANGED <<fn, arg, requests, ret, data, rates, currencies, fred, idx,
                   results, series, failed, nodata, soup>>

\* scraper.py lines 32-42: the second find assigns the same variable, which
\* is what getData returns; get_SnP and get_gainers return it unchanged
\* (equity.py lines 12-14 and 19-21), and nothing after line 21 runs.
find_class ==
    /\ pc = "find_class"
    /\ coochribute' = Find(soup.page, "class", arg.html_id)
    /\ ret' = coochribute'
    /\ pc' = "done"
    /\ UNCHANGED <<fn, arg, requests, data, rates, currencies, fred, idx,
                   results, series, failed, nodata, soup>>

NextScrape ==
    getData \/ get_SnP \/ get_gainers \/ getResponse \/ find_span \/ find_class \/ Return

SpecScrape == Init /\ [][NextScrape]_vars

NextAll ==
    \/ get_forex_matrix \/ fx_fetch \/ fx_select \/ fx_build
    \/ get_sp500_price \/ sp_history \/ get_sofr_rate \/ sofr_series
    \/ get_treasury_yield_curve \/ tc_client \/ tc_loop \/ tc_return
    \/ getData \/ get_SnP \/ get_gainers \/ getResponse \/ find_span \/ find_class
    \/ Return

Spec == Init /\ [][NextAll]_vars

(***************************************************************************)
(* Properties of get_forex_matrix.                                         *)
(***************************************************************************)
FxDone == pc = "done" /\ fn = "get_forex_matrix"

\* The fetch succeeded and its payload carries a non-empty rate table.
FxHasTable ==
    /\ FxDone
    /\ data.kind = "object"
    /\ data.hasRates
    /\ DOMAIN data.rates # {}

FxPositiveTable == FxHasTable /\ \A c \in DOMAIN data.rates : data.rates[c] # Zero

\* The neighbours of a float: the next one up and the next one down.
Succ(f) ==
    IF f.m = Pow2(MantissaBits) - 1
    THEN [m |-> Pow2(MantissaBits - 1), e |-> f.e + 1]
    ELSE [m |-> f.m + 1, e |-> f.e]

Pred(f) ==
    IF f.m = Pow2(MantissaBits - 1)
    THEN [m |-> Pow2(MantissaBits) - 1, e |-> f.e - 1]
    ELSE [m |-> f.m - 1, e |-> f.e]

\* Within two roundings of 1.0.
NearOne(f) == f \in {Pred(Pred(One)), Pred(One), One, Succ(One)}

\* C1 as stated: with strictly positive rates the returned matrix M has
\* M[i][j] = R[j] / R[i], M[i][i] = 1 and M[i][j] * M[j][i] = 1 exactly.
C1_ReciprocalExact ==
    (FxPositiveTable /\ ret.kind = "matrix") =>
        \A i \in ret.val.index : \A j \in ret.val.columns :
            /\ ret.val.at[i][j] = FDiv(data.rates[j], data.rates[i])
            /\ ret.val.at[i][i] = One
            /\ FMul(ret.val.at[i][j], ret.val.at[j][i]) = One

\* C1 amended: with strictly positive rates the returned matrix M has
\* M[i][j] = R[j] / R[i] (the float quotient) and M[i][i] = 1 exactly, and
\* M[i][j] * M[j][i] is 1 up to floating-point rounding.
C1_RatioMatrix ==
    (FxPositiveTable /\ ret.kind = "matrix") =>
        \A i \in ret.val.index : \A j \in ret.val.columns :
            /\ ret.val.at[i][j] = FDiv(data.rates[j], data.rates[i])
            /\ ret.val.at[i][i] = One
            /\ NearOne(FMul(ret.val.at[i][j], ret.val.at[j][i]))

\* A matrix over a positive table with an off-diagonal pair whose product of
\* reciprocal cells is rounded away from 1.
C1_Witness ==
    /\ FxPositiveTable
    /\ ret.kind = "matrix"
    /\ \E i \in ret.val.index : \E j \in ret.val.columns :
          /\ i # j
          /\ ret.val.at[i][j] # One
          /\ FMul(ret.val.at[i][j], ret.val.at[j][i]) # One

\* C2: called with currencies=None on a non-empty rate table, the call never
\* returns None, and the matrix it returns has exactly keys(R) as its row
\* labels and as its column labels.
C2_AllCurrencies ==
    (FxHasTable /\ arg.none) =>
        /\ ret.kind # "none"
        /\ ret.kind = "matrix" =>
              /\ ret.val.index = DOMAIN data.rates
              /\ ret.val.columns = DOMAIN data.rates

\* currencies=None on a table of three currencies, answered with a matrix.
C2_Witness ==
    /\ FxHasTable
    /\ arg.none
    /\ ret.kind = "matrix"
    /\ Cardinality(DOMAIN data.rates) = 3

\* C3: called with a currency list on a non-empty rate table, the result is
\* None exactly when no requested currency is a key of R; a returned matrix
\* has the intersection of the list with keys(R) as row labels and as column
\* labels, and that intersection is not empty.
C3_Intersection ==
    (FxHasTable /\ ~arg.none) =>
        LET inter == Range(arg.list) \cap DOMAIN data.rates
        IN  /\ ret.kind = "none" <=> inter = {}
            /\ ret.kind = "matrix" =>
                  /\ ret.val.index = inter
                  /\ ret.val.columns = inter
                  /\ ret.val.index # {}

\* A list with a known and an unknown currency, answered with a matrix.
C3_Witness ==
    /\ FxHasTable
    /\ ~arg.none
    /\ ret.kind = "matrix"
    /\ Range(arg.list) \cap DOMAIN data.rates # {}
    /\ Range(arg.list) \ DOMAIN data.rates # {}

\* C4 as stated: whatever the fetch yields, get_forex_matrix ends by
\* returning a matrix or None; no exception reaches the caller.
C4_NoException == FxDone => ret.kind \in {"matrix", "none"}

(***************************************************************************)
(* Properties of get_sp500_price and get_sofr_rate.                        *)
(***************************************************************************)
ScalarDone == pc = "done" /\ fn \in {"get_sp500_price", "get_sofr_rate"}

\* C6: get_sp500_price and get_sofr_rate never raise; they return None when
\* the remote call raised (or was never made) or the series is empty, and
\* the literal last entry of a non-empty series, defined or not.
C6_ScalarLast ==
    ScalarDone =>
        /\ ret.kind # "raised"
        /\ (series.kind \in {"unset", "raise"}) => ret = None
        /\ (series.kind = "series" /\ Len(series.obs) = 0) => ret = None
        /\ (series.kind = "series" /\ Len(series.obs) > 0) =>
               ret = Value(series.obs[Len(series.obs)])

\* A series with a defined entry followed by an undefined last entry, which
\* is what the call returned.
C6_Witness ==
    /\ ScalarDone
    /\ series.kind = "series"
    /\ Len(series.obs) > 1
    /\ ~series.obs[1].nan
    /\ series.obs[Len(series.obs)].nan
    /\ ret = Value(NaN)

(***************************************************************************)
(* Properties of get_treasury_yield_curve.                                 *)
(***************************************************************************)
CurveDone == pc = "done" /\ fn = "get_treasury_yield_curve" /\ fred

RowTerms(rows) == {rows[i][1] : i \in 1..Len(rows)}

\* C5 as stated: with F the maturities whose query raised or returned an
\* empty series, the table has exactly 10 - |F| rows, one for each maturity
\* outside F and none for a maturity of F.
C5_RowsRaiseOrEmpty ==
    CurveDone =>
        /\ ret.kind = "table"
        /\ Len(ret.rows) = NumTerms - Cardinality(failed)
        /\ RowTerms(ret.rows) = Terms \ failed

\* C5 amended: with F the maturities whose query raised, returned an empty
\* series or returned a series without a defined entry, the call queries all
\* ten maturities and returns a table (never None) of exactly 10 - |F| rows,
\* one for each maturity outside F and none for a maturity of F.
C5_RowsPerMaturity ==
    CurveDone =>
        /\ ret.kind = "table"
        /\ idx = NumTerms
        /\ Len(ret.rows) = NumTerms - Cardinality(failed \cup nodata)
        /\ RowTerms(ret.rows) = Terms \ (failed \cup nodata)

\* All ten maturities failed, one of them by a series without a defined
\* entry, and a zero-row table was returned.
C5_Witness ==
    /\ CurveDone
    /\ failed \cup nodata = Terms
    /\ nodata # {}
    /\ failed # {}
    /\ ret.kind = "table"
    /\ Len(ret.rows) = 0

LatestDone == pc = "tc_body_done"

HasDefined(obs) == \E i \in 1..Len(obs) : ~obs[i].nan

\* C9: for a maturity whose query returned a non-empty series, the reported
\* rate is the last entry that is a defined number (every entry after it is
\* undefined); with no defined entry the maturity is omitted and no row
\* carries an undefined rate.
C9_LastDefined ==
    (LatestDone /\ series.kind = "series" /\ Len(series.obs) > 0) =>
        LET term == rates_mapping[idx][1]
            obs == series.obs
        IN  /\ \A i \in 1..Len(results) : ~results[i][2].nan
            /\ HasDefined(obs) =>
                  /\ Len(results) = idx
                  /\ results[idx][1] = term
                  /\ \E k \in 1..Len(obs) :
                        /\ ~obs[k].nan
                        /\ \A l \in (k + 1)..Len(obs) : obs[l].nan
                        /\ results[idx][2] = obs[k]
            /\ ~HasDefined(obs) =>
                  /\ Len(results) = idx - 1
                  /\ term \notin RowTerms(results)

\* A series with two different defined entries and an undefined tail: the
\* later defined entry is the one reported.
C9_Witness ==
    /\ LatestDone
    /\ series.kind = "series"
    /\ Len(series.obs) = 3
    /\ ~series.obs[1].nan
    /\ ~series.obs[2].nan
    /\ series.obs[1] # series.obs[2]
    /\ series.obs[3].nan
    /\ Len(results) = idx
    /\ results[idx][2] = series.obs[2]

(***************************************************************************)
(* Properties of getData, get_SnP and get_gainers.                         *)
(***************************************************************************)
ScrapeDone == pc = "done" /\ fn \in {"getData", "get_SnP", "get_gainers"}

\* The elements of the fetched page that carry the selector's attribute or
\* class, whatever their tag name.
Carrying(pg, html_id) == {i \in 1..Len(pg) : pg[i].attr = SelectorAttr(html_id)}

\* C7 as stated: on a fetched page, getData returns None when no element
\* matches the selector, and the text content of the element, verbatim, when
\* exactly one element matches and it is a span.
C7_FieldText ==
    (ScrapeDone /\ soup.kind = "soup") =>
        LET hit == Carrying(soup.page, arg.html_id)
        IN  /\ hit = {} => ret = None
            /\ (Cardinality(hit) = 1
                  /\ \A i \in hit : soup.page[i].name = "span") =>
                   \A i \in hit : ret = Value(soup.page[i].text)

\* C8 as stated: whatever the page request yields, getData, get_SnP and
\* get_gainers end without an exception reaching the caller.
C8_NoException == ScrapeDone => ret.kind # "raised"

(***************************************************************************)
(* Requests issued by one call.                                            *)
(***************************************************************************)
NoDuplicate(reqs) ==
    \A i \in 1..Len(reqs) : \A j \in 1..Len(reqs) : i # j => reqs[i] # reqs[j]

\* The ten queries of the yield curve, 3M first and 30Y last.
CurveQueries ==
    << <<"get_series", "DGS3MO">>, <<"get_series", "DGS6MO">>,
       <<"get_series", "DGS1">>, <<"get_series", "DGS2">>,
       <<"get_series", "DGS3">>, <<"get_series", "DGS5">>,
       <<"get_series", "DGS7">>, <<"get_series", "DGS10">>,
       <<"get_series", "DGS20">>, <<"get_series", "DGS30">> >>

Finished == pc = "done"

\* C10 as stated: no request is issued twice in a call; a finished call of
\* get_sp500_price, get_sofr_rate or get_forex_matrix has issued exactly one
\* request, one of get_treasury_yield_curve the ten queries in the order 3M
\* to 30Y, one of getData, get_SnP or get_gainers exactly its page request and never
\* the second-site request.
C10_OneRequestEach ==
    /\ NoDuplicate(requests)
    /\ (Finished /\ fn \in {"get_sp500_price", "get_sofr_rate", "get_forex_matrix"})
          => Len(requests) = 1
    /\ (Finished /\ fn = "get_treasury_yield_curve") => requests = CurveQueries
    /\ (Finished /\ fn \in {"getData", "get_SnP", "get_gainers"}) =>
          /\ requests = <<arg.url>>
          /\ FINVIZ_URL \notin Range(requests)

\* C10 amended: as stated, for the calls whose client is created (the two
\* functions that build a Fred client issue no request at all when its
\* construction raises); inside the loop the queries issued so far are the
\* first idx of the ten, whichever of them failed.
C10_OneRequestOnceClient ==
    /\ NoDuplicate(requests)
    /\ (Finished /\ fn \in {"get_sp500_price", "get_forex_matrix"})
          => Len(requests) = 1
    /\ (Finished /\ fn = "get_sofr_rate") =>
          /\ fred => requests = << <<"get_series", "SOFR">> >>
          /\ ~fred => requests = <<>>
    /\ fn = "get_treasury_yield_curve" =>
          /\ requests = SubSeq(CurveQueries, 1, idx)
          /\ (Finished /\ fred) => requests = CurveQueries
          /\ ~fred => requests = <<>>
    /\ (Finished /\ fn \in {"getData", "get_SnP", "get_gainers"}) =>
          /\ requests = <<arg.url>>
          /\ FINVIZ_URL \notin Range(requests)

\* A finished yield-curve call in which the first query failed and the other
\* nine were still issued, each once and in order.
C10_Witness ==
    /\ Finished
    /\ fn = "get_treasury_yield_curve"
    /\ "3M" \in failed
    /\ Len(requests) = 10
    /\ requests[10] = <<"get_series", "DGS30">>

====
